---- MODULE Spec2Model ----
(***************************************************************************)
(* A model of the calibration and extraction routines of                   *)
(* SiEPIC_Photonics_Package/core.py: baseline_correction,                  *)
(* calibrate_envelope, cutback and bandwidth.                              *)
(*                                                                         *)
(* One behaviour of the model is one call of one routine.  Init chooses    *)
(* the routine (fn) and its arguments; the actions run the call, loops     *)
(* step by step, until pc = "done", where outcome is "returned" or the     *)
(* name of the Python exception that ended the call, and ret is the        *)
(* returned value.                                                         *)
(*                                                                         *)
(* Numbers.  Powers (dB) and thresholds are small integers, wavelengths    *)
(* are the integers Wl(0) < Wl(1) < ...; every quantity the code derives   *)
(* by division (means, fitted coefficients, regression slopes, the central *)
(* wavelength) is an exact rational <<numerator, denominator>> in lowest   *)
(* terms, so "equal" in the model is exact equality, where the code's      *)
(* floats are equal up to rounding.                                        *)
(*                                                                         *)
(* Indices are Python's: 0-based, a negative index i of a sequence of      *)
(* length n reads element n+i, and an index outside -n..n-1 raises         *)
(* IndexError.                                                             *)
(***************************************************************************)
EXTENDS Integers, Sequences, FiniteSets, TLC

(***************************************************************************)
(* Bounds of the model.                                                    *)
(***************************************************************************)
\* bandwidth: longest trace, highest power level, largest threshold
MaxLen == 4
MaxLevel == 2
MaxThreshold == 2
\* calibrate_envelope: longest reference trace, highest power level,
\* largest seg, largest difference_tol
MaxRefLen == 5
MaxRefLevel == 1
MaxSeg == 6
MaxTol == 2
\* the value at which the model's cursor_next saturates (Python's int does
\* not); larger than every value a terminating scan reaches
\* (MaxSeg + 1 and MaxRefLen)
MaxCursor == 10
\* baseline_correction: samples beyond the fitOrder + 1 the fit needs
MaxExtra == 1
\* cutback: most traces and most unit counts of a family, highest power
\* level, largest count
MaxTraces == 2
MaxFamilyLevel == 1
MaxCount == 2

(***************************************************************************)
(* Program constants.                                                      *)
(***************************************************************************)
BaselineFitOrder == 4
EnvelopeFitOrder == 4
CutbackFitOrder == 8

VARIABLES
    fn,                  \* the routine this behaviour calls
    pc,                  \* position in the call
    outcome,             \* "none" while running, then "returned" or an exception
    ret,                 \* the returned value
    wavelength,          \* the trace's (family's) wavelength axis
    power,               \* the trace's power (reference trace for the envelope)
    \* calibrate_envelope
    seg, difference_tol, step, i, cursor_initial, cursor_next,
    point_initial, point_next, power_ref, wavelength_ref,
    \* bandwidth
    threshold, center_index, isInBand, leftBound, rightBound,
    \* cutback
    input_data_response, input_data_count, wavelength_of_interest

envelopeVars == <<seg, difference_tol, step, i, cursor_initial, cursor_next,
                  point_initial, point_next, power_ref, wavelength_ref>>
bandwidthVars == <<threshold, center_index, isInBand, leftBound, rightBound>>
cutbackVars == <<input_data_response, input_data_count, wavelength_of_interest>>
vars == <<fn, pc, outcome, ret, wavelength, power,
          envelopeVars, bandwidthVars, cutbackVars>>

(***************************************************************************)
(* Python sequences.                                                       *)
(***************************************************************************)
PyIndexOK(s, k) == -Len(s) <= k /\ k < Len(s)

PyGet(s, k) == s[(IF k < 0 THEN k + Len(s) ELSE k) + 1]

Abs(a) == IF a < 0 THEN -a ELSE a

\* the sequence f, element by element (the same value, held as a tuple)
Tup(f) == SubSeq(f, 1, Len(f))

\* the k-th wavelength of the (uniformly sampled, ascending) axis
Wl(k) == 1500 + k

Axis(n) == Tup([k \in 1..n |-> Wl(k - 1)])

IsConstant(s) == \A k \in 1..Len(s) : s[k] = s[1]

IsDistinct(s) == \A j, k \in 1..Len(s) : j # k => s[j] # s[k]

(***************************************************************************)
(* Exact rationals <<n, d>>, d > 0, in lowest terms.                       *)
(***************************************************************************)
RECURSIVE GCD(_, _)
GCD(a, b) == IF b = 0 THEN a ELSE GCD(b, a % b)

RNorm(n, d) ==
    IF d = 1 THEN <<n, 1>>
    ELSE LET g == GCD(Abs(n), Abs(d))
             s == IF d < 0 THEN -1 ELSE 1
         IN  <<(s * n) \div g, (s * d) \div g>>

R(n) == <<n, 1>>

RAdd(a, b) == RNorm(a[1] * b[2] + b[1] * a[2], a[2] * b[2])

RSub(a, b) == RNorm(a[1] * b[2] - b[1] * a[2], a[2] * b[2])

RMul(a, b) == RNorm(a[1] * b[1], a[2] * b[2])

RDiv(a, b) == RNorm(a[1] * b[2], a[2] * b[1])

RLess(a, b) == a[1] * b[2] < b[1] * a[2]

RSeq(s) == Tup([k \in 1..Len(s) |-> R(s[k])])

RECURSIVE RSum(_)
RSum(s) == IF s = <<>> THEN R(0) ELSE RAdd(s[1], RSum(Tail(s)))

\* numpy.mean
RMean(s) == RDiv(RSum(s), R(Len(s)))

\* max() of a non-empty sequence of rationals
RMax(s) == CHOOSE m \in {s[k] : k \in 1..Len(s)} :
               \A k \in 1..Len(s) : ~RLess(m, s[k])

\* x - numpy.mean(x)
Centered(x) == LET m == RMean(x) IN Tup([k \in 1..Len(x) |-> RSub(x[k], m)])

(***************************************************************************)
(* numpy.polyfit and numpy.polyval.                                        *)
(*                                                                         *)
(* polyfit(x, y, deg) is the coefficient vector, highest power first, of   *)
(* the least-squares polynomial of degree deg through the points (x, y).   *)
(* It is modelled, exactly, on the inputs the calls of this model give it: *)
(*   - deg = 1, x not all equal: the regression line;                      *)
(*   - deg = 1, x all equal to v # 0 (one point, or repeated abscissae):   *)
(*     the system has rank 1; numpy warns (RankWarning) and returns the    *)
(*     minimum-norm solution of the column-scaled system, which is         *)
(*     <<mean(y) / (2 v), mean(y) / 2>>;                                   *)
(*   - deg > 1, at least deg + 1 distinct x and y constant: the solution   *)
(*     is unique and is the constant polynomial.                           *)
(* No other input reaches it (TLC would stop on the CASE).                 *)
(***************************************************************************)
RDot(a, b) == RSum(Tup([k \in 1..Len(a) |-> RMul(a[k], b[k])]))

RegressionLine(x, y) ==
    LET n == R(Len(x))
        Sx == RSum(x)
        Sy == RSum(y)
        Sxx == RDot(x, x)
        Sxy == RDot(x, y)
        slope == RDiv(RSub(RMul(n, Sxy), RMul(Sx, Sy)),
                      RSub(RMul(n, Sxx), RMul(Sx, Sx)))
    IN  <<slope, RDiv(RSub(Sy, RMul(slope, Sx)), n)>>

MinimumNormLine(x, y) ==
    <<RDiv(RMean(y), RMul(R(2), x[1])), RDiv(RMean(y), R(2))>>

polyfit(x, y, deg) ==
    CASE deg = 1 /\ IsConstant(x) /\ x[1] # R(0) -> MinimumNormLine(x, y)
      [] deg = 1 /\ ~IsConstant(x) -> RegressionLine(x, y)
      [] deg > 1 /\ Len(x) >= deg + 1 /\ IsDistinct(x) /\ IsConstant(y) ->
             Tup([k \in 1..(deg + 1) |-> IF k = deg + 1 THEN y[1] ELSE R(0)])

\* Horner's rule, as numpy.polyval evaluates p at one point
RECURSIVE Horner(_, _, _)
Horner(p, x, acc) ==
    IF p = <<>> THEN acc ELSE Horner(Tail(p), x, RAdd(RMul(acc, x), p[1]))

polyval(p, x) == Tup([k \in 1..Len(x) |-> Horner(p, x[k], R(0))])

(***************************************************************************)
(* baseline_correction( input_response )                                   *)
(***************************************************************************)
\* max(power_baseline) - max(power), the shift of line 56
PeakShiftDropped(power_baseline, pw) == RMax(power_baseline)

PeakShift(power_baseline, pw) == RSub(RMax(power_baseline), RMax(pw))

baseline_correction(input_response) ==
    LET wl == RSeq(input_response[1])
        pw == RSeq(input_response[2])
        pfit == polyfit(Centered(wl), pw, BaselineFitOrder)
        power_baseline == polyval(pfit, Centered(wl))
        power_corrected ==
            Tup([k \in 1..Len(pw) |->
                    RAdd(RSub(pw[k], power_baseline[k]),
                         PeakShift(power_baseline, pw))])
    IN  <<power_corrected, power_baseline>>

(***************************************************************************)
(* cutback( input_data_response, input_data_count, wavelength )            *)
(***************************************************************************)
\* numpy.polyfit returns [slope, intercept]; line 142 reads element [0]
InterceptOf(fit) == fit[2]

SlopeOf(fit) == fit[1]

\* numpy.where( wavelength_data==wavelength )[0]: the matching indices
WhereEqual(wavelength_data, wl) ==
    {k \in 0..(Len(wavelength_data) - 1) : wavelength_data[k + 1] = wl}

Min(S) == CHOOSE m \in S : \A k \in S : m <= k

cutback(response, count, wl) ==
    LET wavelength_data == response[1][1]
        x == Centered(RSeq(wavelength_data))
        nc == Len(count)
        \* lines 123-126: one fit per unit count, reading response[i]
        pw == Tup([t \in 1..nc |-> RSeq(response[t][2])])
        power_fit == Tup([t \in 1..nc |->
                             polyval(polyfit(x, pw[t], CutbackFitOrder), x)])
        \* lines 128-129: the transposes, [wavelength sample][trace]
        power_fit_transpose ==
            Tup([k \in 1..Len(wavelength_data) |->
                    Tup([t \in 1..nc |-> power_fit[t][k]])])
        power_transpose ==
            Tup([k \in 1..Len(wavelength_data) |->
                    Tup([t \in 1..nc |-> pw[t][k]])])
        where == WhereEqual(wavelength_data, wl)
        insertion_loss ==
            Tup([k \in 1..Len(wavelength_data) |->
                    polyfit(RSeq(count), power_fit_transpose[k], 1)])
        insertion_loss_raw ==
            Tup([k \in 1..Len(wavelength_data) |->
                    polyfit(RSeq(count), power_transpose[k], 1)])
    IN  IF nc > Len(response)
        THEN [outcome |-> "IndexError", value |-> <<>>]      \* line 124
        ELSE IF where = {}
        THEN [outcome |-> "IndexError", value |-> <<>>]      \* line 132
        ELSE IF nc = 0
        THEN [outcome |-> "IndexError", value |-> <<>>]      \* line 138
        ELSE [outcome |-> "returned",
              value |-> << SlopeOf(insertion_loss[Min(where) + 1]),
                           Tup([k \in 1..Len(wavelength_data) |->
                                   SlopeOf(insertion_loss[k])]),
                           Tup([k \in 1..Len(wavelength_data) |->
                                   SlopeOf(insertion_loss_raw[k])]) >>]

(***************************************************************************)
(* bandwidth( input_data_response, threshold )                             *)
(***************************************************************************)
IntMax(s) == CHOOSE m \in {s[k] : k \in 1..Len(s)} : \A k \in 1..Len(s) : s[k] <= m

\* (numpy.abs(array - value)).argmin(): the first index of the least distance
find_nearest(array, value) ==
    Min({k \in 0..(Len(array) - 1) :
            \A j \in 0..(Len(array) - 1) :
                Abs(array[k + 1] - value) <= Abs(array[j + 1] - value)})

\* response>max(response) - threshold, line 212
InBandOrEqual(response, thr) ==
    [k \in 1..Len(response) |-> response[k] >= IntMax(response) - thr]

InBand(response, thr) ==
    [k \in 1..Len(response) |-> response[k] > IntMax(response) - thr]

\* lines 211-214
BandwidthCall ==
    /\ fn = "bandwidth" /\ pc = "call"
    /\ center_index' = find_nearest(power, IntMax(power))
    /\ isInBand' = InBand(power, threshold)
    /\ leftBound' = center_index'
    /\ pc' = "left"
    /\ UNCHANGED <<fn, outcome, ret, wavelength, power, threshold, rightBound,
                   envelopeVars, cutbackVars>>

\* one evaluation of the loop test of line 216, and of its body, line 217
LeftScan ==
    /\ fn = "bandwidth" /\ pc = "left"
    /\ IF ~PyIndexOK(isInBand, leftBound)
       THEN /\ pc' = "done" /\ outcome' = "IndexError"
            /\ UNCHANGED <<leftBound, rightBound>>
       ELSE IF PyGet(isInBand, leftBound)
       THEN /\ leftBound' = leftBound - 1
            /\ UNCHANGED <<pc, outcome, rightBound>>
       ELSE /\ rightBound' = center_index                    \* line 219
            /\ pc' = "right"
            /\ UNCHANGED <<outcome, leftBound>>
    /\ UNCHANGED <<fn, ret, wavelength, power, threshold, center_index, isInBand,
                   envelopeVars, cutbackVars>>

\* one evaluation of the loop test of line 221, and of its body, line 222;
\* when the loop ends, lines 224-228
RightScan ==
    /\ fn = "bandwidth" /\ pc = "right"
    /\ IF ~PyIndexOK(isInBand, rightBound)
       THEN /\ pc' = "done" /\ outcome' = "IndexError"
            /\ UNCHANGED <<rightBound, ret>>
       ELSE IF PyGet(isInBand, rightBound)
       THEN /\ rightBound' = rightBound + 1
            /\ UNCHANGED <<pc, outcome, ret>>
       ELSE /\ ret' = << R(PyGet(wavelength, rightBound)
                             - PyGet(wavelength, leftBound)),
                         RDiv(R(PyGet(wavelength, rightBound)
                                  + PyGet(wavelength, leftBound)), R(2)) >>
            /\ pc' = "done" /\ outcome' = "returned"
            /\ UNCHANGED rightBound
    /\ UNCHANGED <<fn, wavelength, power, threshold, center_index, isInBand,
                   leftBound, envelopeVars, cutbackVars>>

(***************************************************************************)
(* calibrate_envelope( input_response, reference_response, seg,            *)
(*                     difference_tol, fitOrder )                          *)
(*                                                                         *)
(* power and wavelength are the reference trace.  The input trace shares   *)
(* its axis; its power decides no branch of the routine, and the model     *)
(* keeps no value for it.  fitOrder is the default, EnvelopeFitOrder.      *)
(***************************************************************************)
\* int(numpy.size(power)/seg), line 70
StepOffByOne(size, sg) == (size - 1) \div sg

StepOf(size, sg) == size \div sg

\* the test of line 81
WithinTolOrEqual(a, b, tol) == Abs(a - b) <= tol

WithinTol(a, b, tol) == Abs(a - b) < tol

\* cursor_next + 1.  Python's integers are unbounded; the model's counter
\* stays at MaxCursor once it is there, a value no scan that ends ever
\* reaches, so a state that repeats at MaxCursor stands for a loop that
\* goes on advancing cursor_next without end.
Advance(c) == IF c < MaxCursor THEN c + 1 ELSE c

\* lines 70-75
EnvelopeCall ==
    /\ fn = "calibrate_envelope" /\ pc = "call"
    /\ step' = StepOf(Len(power), seg)
    /\ power_ref' = <<>> /\ wavelength_ref' = <<>>
    /\ cursor_initial' = 0 /\ cursor_next' = 1
    /\ i' = 0
    /\ pc' = "for"
    /\ UNCHANGED <<fn, outcome, ret, wavelength, power, seg, difference_tol,
                   point_initial, point_next, bandwidthVars, cutbackVars>>

\* lines 95-96 and the next value of the for loop
EndOfIteration(next) ==
    /\ i' = i + 1
    /\ pc' = IF next * step >= Len(power) THEN "fit" ELSE "for"

\* one pass of the for loop of line 76, up to the while loop of line 87
ForIteration ==
    /\ fn = "calibrate_envelope" /\ pc = "for"
    /\ IF i >= seg
       THEN /\ pc' = "fit"
            /\ UNCHANGED <<outcome, i, cursor_initial, cursor_next, point_initial,
                           point_next, power_ref, wavelength_ref>>
       ELSE IF ~PyIndexOK(power, cursor_initial * step)
                 \/ ~PyIndexOK(power, step * cursor_next)
       THEN /\ pc' = "done" /\ outcome' = "IndexError"
            /\ UNCHANGED <<i, cursor_initial, cursor_next, point_initial,
                           point_next, power_ref, wavelength_ref>>
       ELSE /\ point_initial' = PyGet(power, cursor_initial * step)
            /\ point_next' = PyGet(power, step * cursor_next)
            /\ IF WithinTol(point_initial', point_next', difference_tol)
               THEN /\ power_ref' =
                           Append(power_ref, PyGet(power, cursor_initial * step))
                    /\ wavelength_ref' =
                           Append(wavelength_ref,
                                  PyGet(wavelength, cursor_initial * step))
                    /\ cursor_initial' = cursor_initial + 1
                    /\ cursor_next' = Advance(cursor_next)
                    /\ EndOfIteration(cursor_next')
               ELSE /\ pc' = "while"
                    /\ UNCHANGED <<i, cursor_initial, cursor_next, power_ref,
                                   wavelength_ref>>
            /\ UNCHANGED outcome
    /\ UNCHANGED <<fn, ret, wavelength, power, seg, difference_tol, step,
                   bandwidthVars, cutbackVars>>

\* one evaluation of the loop test of line 87 and of its body, lines 88-89;
\* when the loop ends, lines 91-96
WhileStep ==
    /\ fn = "calibrate_envelope" /\ pc = "while"
    /\ IF Abs(point_initial - point_next) > difference_tol
          /\ (cursor_next + 2) * step < Len(power)
       THEN /\ cursor_next' = Advance(cursor_next)
            /\ point_next' = PyGet(power, step * cursor_next')
            /\ UNCHANGED <<pc, i, cursor_initial>>
       ELSE /\ cursor_initial' = cursor_next
            /\ cursor_next' = Advance(cursor_next)
            /\ EndOfIteration(cursor_next')
            /\ UNCHANGED point_next
    /\ UNCHANGED <<fn, outcome, ret, wavelength, power, seg, difference_tol, step,
                   point_initial, power_ref, wavelength_ref,
                   bandwidthVars, cutbackVars>>

(***************************************************************************)
(* How numpy.polyfit(x - mean(x), y, deg), deg >= 1, can end:              *)
(*   - no point: TypeError ("expected non-empty vector for x");            *)
(*   - every x - mean(x) is 0 (one point, or one abscissa repeated): the   *)
(*     column scaling divides 0 by 0 and the least-squares solver is given *)
(*     NaN; depending on the LAPACK build it fails to converge             *)
(*     (LinAlgError) or returns NaN coefficients;                          *)
(*   - otherwise it returns, with a RankWarning (a warning, not an         *)
(*     exception) when there are fewer distinct points than deg + 1.       *)
(***************************************************************************)
PolyfitOutcomes(x, deg) ==
    IF x = <<>> THEN {"TypeError"}
    ELSE IF IsConstant(x) THEN {"LinAlgError", "returned"}
    ELSE {"returned"}

\* lines 98-107: the fit of the envelope points, the fit of the input
\* trace, and the return
EnvelopeFit ==
    /\ fn = "calibrate_envelope" /\ pc = "fit"
    /\ \E ref \in PolyfitOutcomes(wavelength_ref, EnvelopeFitOrder),
          inp \in PolyfitOutcomes(wavelength, EnvelopeFitOrder) :
           /\ outcome' = IF ref # "returned" THEN ref ELSE inp
           /\ ret' = IF outcome' = "returned"
                     THEN [envelope_points |-> Len(wavelength_ref)]
                     ELSE ret
    /\ pc' = "done"
    /\ UNCHANGED <<fn, wavelength, power, envelopeVars, bandwidthVars, cutbackVars>>

(***************************************************************************)
(* The calls of baseline_correction and of cutback, each one step.         *)
(***************************************************************************)
BaselineCorrection ==
    /\ fn = "baseline_correction" /\ pc = "call"
    /\ ret' = baseline_correction(<<wavelength, power>>)
    /\ pc' = "done" /\ outcome' = "returned"
    /\ UNCHANGED <<fn, wavelength, power, envelopeVars, bandwidthVars, cutbackVars>>

Cutback ==
    /\ fn = "cutback" /\ pc = "call"
    /\ LET r == cutback(input_data_response, input_data_count,
                        wavelength_of_interest)
       IN  /\ outcome' = r.outcome
           /\ ret' = r.value
    /\ pc' = "done"
    /\ UNCHANGED <<fn, wavelength, power, envelopeVars, bandwidthVars, cutbackVars>>

(***************************************************************************)
(* The calls the model makes.                                              *)
(***************************************************************************)
SeqsUpTo(S, lo, hi) == UNION {[1..n -> S] : n \in lo..hi}

Flat(n, c) == Tup([k \in 1..n |-> c])

NoEnvelope ==
    /\ seg = 0 /\ difference_tol = 0 /\ step = 0 /\ i = 0
    /\ cursor_initial = 0 /\ cursor_next = 0
    /\ point_initial = 0 /\ point_next = 0
    /\ power_ref = <<>> /\ wavelength_ref = <<>>

NoBandwidth ==
    /\ threshold = 0 /\ center_index = 0 /\ isInBand = <<>>
    /\ leftBound = 0 /\ rightBound = 0

NoCutback ==
    /\ input_data_response = <<>> /\ input_data_count = <<>>
    /\ wavelength_of_interest = 0

\* a trace of constant power, long enough for the degree-4 fit
InitBaseline ==
    /\ fn = "baseline_correction"
    /\ \E n \in (BaselineFitOrder + 1)..(BaselineFitOrder + 1 + MaxExtra),
          c \in (-MaxLevel)..MaxLevel :
           /\ wavelength = Axis(n)
           /\ power = Flat(n, c)
    /\ NoEnvelope /\ NoBandwidth /\ NoCutback

\* any non-empty reference trace, seg >= 1, any tolerance from -1 up
InitEnvelope ==
    /\ fn = "calibrate_envelope"
    /\ power \in SeqsUpTo(0..MaxRefLevel, 1, MaxRefLen)
    /\ wavelength = Axis(Len(power))
    /\ seg \in 1..MaxSeg
    /\ difference_tol \in (-1)..MaxTol
    /\ step = 0 /\ i = 0 /\ cursor_initial = 0 /\ cursor_next = 0
    /\ point_initial = 0 /\ point_next = 0
    /\ power_ref = <<>> /\ wavelength_ref = <<>>
    /\ NoBandwidth /\ NoCutback

\* any non-empty trace, any threshold from 0 up
InitBandwidth ==
    /\ fn = "bandwidth"
    /\ power \in SeqsUpTo(0..MaxLevel, 1, MaxLen)
    /\ wavelength = Axis(Len(power))
    /\ threshold \in 0..MaxThreshold
    /\ center_index = 0 /\ isInBand = <<>> /\ leftBound = 0 /\ rightBound = 0
    /\ NoEnvelope /\ NoCutback

\* a family of traces, each of constant power, on an axis long enough for
\* the degree-8 fit; any unit counts >= 1, as many as the traces or not;
\* the wavelength asked for is the first or the last of the axis, or is
\* not on it
InitCutback ==
    /\ fn = "cutback"
    /\ \E n \in {CutbackFitOrder + 1, CutbackFitOrder + 2} :
           /\ wavelength = Axis(n)
           /\ \E levels \in SeqsUpTo(0..MaxFamilyLevel, 1, MaxTraces) :
                  input_data_response =
                      [t \in 1..Len(levels) |-> <<Axis(n), Flat(n, levels[t])>>]
           /\ wavelength_of_interest \in {Wl(0), Wl(n - 1), Wl(n)}
    /\ input_data_count \in SeqsUpTo(1..MaxCount, 0, MaxTraces)
    /\ power = <<>>
    /\ NoEnvelope /\ NoBandwidth

Init ==
    /\ pc = "call" /\ outcome = "none" /\ ret = <<>>
    /\ \/ InitBaseline
       \/ InitEnvelope
       \/ InitBandwidth
       \/ InitCutback

Next ==
    \/ BaselineCorrection
    \/ Cutback
    \/ EnvelopeCall
    \/ ForIteration
    \/ WhileStep
    \/ EnvelopeFit
    \/ BandwidthCall
    \/ LeftScan
    \/ RightScan

Spec == Init /\ [][Next]_vars

\* The calls of calibrate_envelope alone, under the one fairness the
\* interpreter gives: a call that can take a step takes it.
EnvelopeInit ==
    /\ pc = "call" /\ outcome = "none" /\ ret = <<>>
    /\ InitEnvelope

EnvelopeNext ==
    \/ EnvelopeCall
    \/ ForIteration
    \/ WhileStep
    \/ EnvelopeFit

EnvelopeFairSpec ==
    EnvelopeInit /\ [][EnvelopeNext]_vars /\ WF_vars(EnvelopeNext)

(***************************************************************************)
(* The claims.                                                             *)
(***************************************************************************)
Returned == pc = "done" /\ outcome = "returned"

\* ---- baseline_correction -------------------------------------------------
C1_FlatCallDone ==
    fn = "baseline_correction" /\ pc = "done" /\ IsConstant(power)

\* C1, as stated: on a trace of constant power c, baseline_correction
\* returns a corrected_power equal to the original power c at every sample.
C1_CorrectedEqualsOriginal ==
    C1_FlatCallDone => outcome = "returned" /\ ret[1] = RSeq(power)

\* C1, amended: on a trace of constant power c, baseline_correction returns
\* a corrected_power of 0 at every sample (power - fit + max(fit) -
\* max(power) = c - c + c - c), and a fit curve equal to c at every sample.
C1_FlatCorrectedIsZero ==
    C1_FlatCallDone =>
        /\ outcome = "returned"
        /\ ret[1] = Flat(Len(power), R(0))
        /\ ret[2] = RSeq(power)

C1_Witness == C1_FlatCallDone /\ outcome = "returned" /\ power[1] # 0

\* ---- bandwidth -----------------------------------------------------------
\* what the claims say of the trace, from the arguments alone
C_Peak == Min({k \in 0..(Len(power) - 1) : \A j \in 1..Len(power) : power[j] <= power[k + 1]})

C_InBandAt(k) ==
    power[k + 1] > power[C_Peak + 1] - threshold

C_OutBelow == {k \in 0..(C_Peak - 1) : ~C_InBandAt(k)}

C_OutAbove == {k \in (C_Peak + 1)..(Len(power) - 1) : ~C_InBandAt(k)}

C_Max(S) == CHOOSE m \in S : \A k \in S : k <= m

\* the left scan, stepping down from the peak, meets no out-of-band sample
\* at an index >= 0; the right scan meets none at an index <= len-1
C2_LeftRunsOut == \A k \in 0..C_Peak : C_InBandAt(k)

C2_RightRunsOut == \A k \in C_Peak..(Len(power) - 1) : C_InBandAt(k)

\* C2: when the left scan would step below index 0 or the right scan past
\* index len-1 before meeting an out-of-band sample, bandwidth ends in an
\* error and returns no result.
C2_RunOffEndsInError ==
    (fn = "bandwidth" /\ pc = "done" /\ (C2_LeftRunsOut \/ C2_RightRunsOut))
        => outcome # "returned"

C9_EdgesAndResult ==
    /\ outcome = "returned"
    /\ leftBound < C_Peak /\ C_Peak < rightBound
    /\ leftBound = C_Max(C_OutBelow)
    /\ rightBound = Min(C_OutAbove)
    /\ \A k \in (leftBound + 1)..(rightBound - 1) : C_InBandAt(k)
    /\ ret[1] = R(wavelength[rightBound + 1] - wavelength[leftBound + 1])
    /\ RMul(R(2), ret[2])
           = R(wavelength[rightBound + 1] + wavelength[leftBound + 1])

C9_TwoSided ==
    fn = "bandwidth" /\ pc = "done" /\ C_OutBelow # {} /\ C_OutAbove # {}

\* C9, as stated: for a trace with an out-of-band sample on each side of
\* the peak, bandwidth returns with left edge < peak < right edge, the edges
\* the nearest out-of-band indices below and above the peak, bandwidth =
\* wavelength[right] - wavelength[left], central wavelength their midpoint.
C9_Edges == C9_TwoSided => C9_EdgesAndResult

\* C9, amended: the same, for a threshold > 0 (with threshold <= 0 the peak
\* itself is out of band and both edges are the peak index).
C9_EdgesPositiveThreshold == (C9_TwoSided /\ threshold > 0) => C9_EdgesAndResult

C9_Witness ==
    /\ C9_TwoSided /\ threshold > 0 /\ outcome = "returned"
    /\ rightBound - leftBound > 2

\* ---- calibrate_envelope --------------------------------------------------
\* the sample index of the j-th accepted envelope point
C_AcceptedIndex(j) == wavelength_ref[j] - Wl(0)

\* C3: the sample indices accepted as envelope points are strictly
\* increasing in acceptance order.
C3_AcceptedStrictlyIncreasing ==
    fn = "calibrate_envelope" =>
        \A j \in 1..(Len(wavelength_ref) - 1) :
            C_AcceptedIndex(j) < C_AcceptedIndex(j + 1)

C_ScanEnded == fn = "calibrate_envelope" /\ pc \in {"fit", "done"}

\* C4, as stated: at the end of the scan, any two envelope points adjacent
\* in the accepted sequence differ in power by strictly less than
\* difference_tol.
C4_AdjacentWithinTol ==
    C_ScanEnded =>
        \A j \in 1..(Len(power_ref) - 1) :
            Abs(power_ref[j] - power_ref[j + 1]) < difference_tol

\* C4, amended: every accepted envelope point differs by strictly less than
\* difference_tol from the sample one step after it, accepted or not; so
\* two adjacent envelope points differ by less than difference_tol when
\* they are one step apart (no skipped sample lies between them).
C4_NextSampleWithinTol ==
    fn = "calibrate_envelope" =>
        \A j \in 1..Len(power_ref) :
            /\ power_ref[j] = power[C_AcceptedIndex(j) + 1]
            /\ C_AcceptedIndex(j) + step < Len(power)
            /\ Abs(power_ref[j] - power[C_AcceptedIndex(j) + step + 1])
                   < difference_tol
            /\ (j < Len(power_ref)
                  /\ C_AcceptedIndex(j + 1) = C_AcceptedIndex(j) + step)
                   => Abs(power_ref[j] - power_ref[j + 1]) < difference_tol

\* a scan that accepted two points one step apart, and two points with a
\* skipped sample between them that differ by difference_tol or more
C4_Witness ==
    /\ C_ScanEnded /\ step > 0
    /\ \E j \in 1..(Len(power_ref) - 1) :
           C_AcceptedIndex(j + 1) = C_AcceptedIndex(j) + step
    /\ \E j \in 1..(Len(power_ref) - 1) :
           /\ C_AcceptedIndex(j + 1) > C_AcceptedIndex(j) + step
           /\ Abs(power_ref[j] - power_ref[j + 1]) >= difference_tol

\* C5: when the scan ends with at most fitOrder accepted envelope points,
\* calibrate_envelope fails with an error and returns no result.
C5_TooFewPointsEndsInError ==
    (fn = "calibrate_envelope" /\ pc = "done"
        /\ Len(power_ref) <= EnvelopeFitOrder) => outcome # "returned"

\* C8, as stated: the number of accepted envelope points is strictly less
\* than seg.
C8_FewerThanSeg ==
    fn = "calibrate_envelope" => Len(power_ref) < seg

\* C8, amended: the number of accepted envelope points is at most seg, and
\* is strictly less than seg when len(power) is a multiple of seg.
C8_AtMostSeg ==
    fn = "calibrate_envelope" =>
        /\ Len(power_ref) <= seg
        /\ Len(power) % seg = 0 => Len(power_ref) < seg

C8_Witness ==
    /\ C_ScanEnded /\ seg >= 2
    /\ Len(power) % seg = 0 /\ Len(power_ref) = seg - 1

\* C10: the cursor scan eventually stops (it reaches the fit, or ends in an
\* error).
C10_ScanStops ==
    (fn = "calibrate_envelope") => <>(pc \in {"fit", "done"})

\* ---- cutback -------------------------------------------------------------
\* C6: when the number of traces differs from the number of unit counts,
\* cutback fails with an error and returns no profile.
C6_MismatchEndsInError ==
    (fn = "cutback" /\ pc = "done"
        /\ Len(input_data_response) # Len(input_data_count))
        => outcome # "returned"

\* power[trace_t] = A - B * count_t at every sample, one count per trace
C7_Affine(A, B) ==
    /\ Len(input_data_response) = Len(input_data_count)
    /\ \A t \in 1..Len(input_data_response) :
           \A k \in 1..Len(wavelength) :
               input_data_response[t][2][k] = A - B * input_data_count[t]

C7_OnAxis == \E k \in 1..Len(wavelength) : wavelength[k] = wavelength_of_interest

C7_SlopesAre(B) ==
    /\ outcome = "returned"
    /\ ret[1] = R(-B)
    /\ ret[2] = Flat(Len(wavelength), R(-B))
    /\ ret[3] = Flat(Len(wavelength), R(-B))

C7_Coefficients ==
    ((-MaxFamilyLevel * (MaxCount + 1))..(MaxFamilyLevel * (MaxCount + 1)))
        \X ((-MaxFamilyLevel)..MaxFamilyLevel)

C7_TwoCounts ==
    \E s, t \in 1..Len(input_data_count) :
        input_data_count[s] # input_data_count[t]

\* C7, as stated: for a family with power[trace_i] = A - B * count_i at
\* every sample, for every sequence of unit counts and every wavelength of
\* interest on the axis, the fitted and raw slope profiles equal -B at
\* every sample and loss_at_wavelength equals -B.
C7_AffineSlope ==
    (fn = "cutback" /\ pc = "done" /\ C7_OnAxis) =>
        \A ab \in C7_Coefficients :
            C7_Affine(ab[1], ab[2]) => C7_SlopesAre(ab[2])

\* C7, amended: the same, for every sequence of unit counts that holds at
\* least two different counts (the regression over a single count, or over
\* equal counts, does not determine a slope).
C7_AffineSlopeTwoCounts ==
    (fn = "cutback" /\ pc = "done" /\ C7_OnAxis /\ C7_TwoCounts) =>
        \A ab \in C7_Coefficients :
            C7_Affine(ab[1], ab[2]) => C7_SlopesAre(ab[2])

C7_Witness ==
    /\ fn = "cutback" /\ Returned /\ C7_OnAxis /\ C7_TwoCounts
    /\ \E ab \in C7_Coefficients : ab[2] # 0 /\ C7_Affine(ab[1], ab[2])

====
